---- MODULE Spec2Model ----
\* Verification model of flow/util/genMetrics.py: the pattern-based field
\* extractor, the clock skew/latency scan, the clock constraint parser, the
\* per-run metrics assembly and the all_designs batch loop.
EXTENDS Integers, Sequences, FiniteSets, TLC

VARIABLES
  metrics_dict,   \* the record being built: sequence of [k, v] in insertion order
  stdout,         \* the [WARN] lines printed so far
  raised,         \* "none", or the exception that left the running function
  call,           \* the arguments and pre-state of the last extractTagFromFile call
  pc,             \* position of the running program
  report,         \* get_skew_latency: the report file being scanned
  scan,           \* get_skew_latency: its local variables
  li,             \* get_skew_latency: index of the next line of the loop
  triple,         \* get_skew_latency: the returned tuple
  sdcFile,        \* read_sdc: the constraint file
  clkList,        \* read_sdc: the returned list
  run,            \* extract_metrics: the run's files, identity and environment
  metrics_df,     \* extract_metrics: the returned two-column table
  document,       \* extract_metrics: the metrics.json written for the run
  triples,        \* batch: the (platform, design, variant) runs, as discovered
  bi,             \* batch: index of the next triple of the loop
  heap,           \* batch: the record objects returned so far, by identity
  all_metrics,    \* batch: the list of records, as identities
  all_metrics_df, \* batch: the aggregate table
  design_metrics, \* batch: identity of the record of the last run
  design_metrics_df, \* batch: the table of the last run
  tables,         \* batch: the per-design tables processed so far
  outFile         \* batch: the metrics.json and metrics.html of the batch

vars == <<metrics_dict, stdout, raised, call, pc, report, scan, li, triple,
          sdcFile, clkList, run, metrics_df, document, triples, bi, heap,
          all_metrics, all_metrics_df, design_metrics, design_metrics_df,
          tables, outFile>>

tagVars == <<call>>
skewVars == <<report, scan, li, triple>>
sdcVars == <<sdcFile, clkList>>
runVars == <<run, metrics_df, document>>
mergeVars == <<all_metrics_df, design_metrics_df, tables>>
loopVars == <<triples, bi, heap, all_metrics, design_metrics, outFile>>
batchVars == <<mergeVars, loopVars>>

\* What each component leaves alone.
notTag == <<skewVars, sdcVars, runVars, batchVars>>
notSkew == <<metrics_dict, tagVars, sdcVars, runVars, batchVars>>
notSdc == <<tagVars, skewVars, runVars, batchVars>>
notRun == <<tagVars, skewVars, sdcVars, batchVars>>
notBatch == <<metrics_dict, metrics_df, tagVars, skewVars, sdcVars>>

-----------------------------------------------------------------------------
\* Text.  A Python str is a sequence of one-character strings.  The alphabet
\* of the texts drawn below holds digits, ".", ":", "-", " " and a few
\* letters, none of which spell an exponent, "inf", "nan" or "_".

Digit == {"0", "1", "2", "3", "4", "5", "6", "7", "8", "9"}

DigitVal(c) ==
  CASE c = "0" -> 0 [] c = "1" -> 1 [] c = "2" -> 2 [] c = "3" -> 3
    [] c = "4" -> 4 [] c = "5" -> 5 [] c = "6" -> 6 [] c = "7" -> 7
    [] c = "8" -> 8 [] c = "9" -> 9

RECURSIVE LStrip(_)
LStrip(s) == IF s # <<>> /\ Head(s) = " " THEN LStrip(Tail(s)) ELSE s

RECURSIVE RStrip(_)
RStrip(s) ==
  IF s # <<>> /\ s[Len(s)] = " " THEN RStrip(SubSeq(s, 1, Len(s) - 1)) ELSE s

\* str.strip()
strip(s) == RStrip(LStrip(s))

RECURSIVE DigitsValue(_)
DigitsValue(d) ==
  IF d = <<>> THEN 0
  ELSE 10 * DigitsValue(SubSeq(d, 1, Len(d) - 1)) + DigitVal(d[Len(d)])

RECURSIVE Pow10(_)
Pow10(n) == IF n = 0 THEN 1 ELSE 10 * Pow10(n - 1)

\* A float as neg * mant / 10^exp, with no trailing zero in the fraction.
RECURSIVE NormFloat(_, _, _)
NormFloat(neg, mant, exp) ==
  IF exp > 0 /\ mant % 10 = 0 THEN NormFloat(neg, mant \div 10, exp - 1)
  ELSE [neg |-> neg /\ mant # 0, mant |-> mant, exp |-> exp]

Unsigned(s) == IF s # <<>> /\ Head(s) \in {"-", "+"} THEN Tail(s) ELSE s

\* Whether float(s) succeeds (ValueError otherwise).
IsFloatText(s) ==
  LET u == Unsigned(strip(s)) IN
  /\ \A i \in 1..Len(u) : u[i] \in Digit \cup {"."}
  /\ Cardinality({i \in 1..Len(u) : u[i] = "."}) <= 1
  /\ \E i \in 1..Len(u) : u[i] \in Digit

IsDigit(c) == c \in Digit

\* float(s), for a text float() accepts.
float(s) ==
  LET t == strip(s)
      u == Unsigned(t)
      dots == {i \in 1..Len(u) : u[i] = "."}
      nfrac == IF dots = {} THEN 0 ELSE Len(u) - (CHOOSE i \in dots : TRUE)
  IN NormFloat(t # <<>> /\ Head(t) = "-",
               DigitsValue(SelectSeq(u, IsDigit)), nfrac)

Signed(f) == IF f.neg THEN 0 - f.mant ELSE f.mant

\* a > b on floats
FloatGt(a, b) == Signed(a) * Pow10(b.exp) > Signed(b) * Pow10(a.exp)

ZeroFloat == [neg |-> FALSE, mant |-> 0, exp |-> 0]

-----------------------------------------------------------------------------
\* MetricValue: a Python value stored in the record, tagged by its type.

NoFloat == ZeroFloat

StrV(s) == [t |-> "str", s |-> s, f |-> NoFloat, n |-> 0, l |-> <<>>]
FloatV(f) == [t |-> "float", s |-> <<>>, f |-> f, n |-> 0, l |-> <<>>]
IntV(n) == [t |-> "int", s |-> <<>>, f |-> NoFloat, n |-> n, l |-> <<>>]
ListV(l) == [t |-> "list", s |-> <<>>, f |-> NoFloat, n |-> 0, l |-> l]

NA == <<"N", "/", "A">>
ERR == <<"E", "R", "R">>

\* The record is a Python dict: insertion ordered, assignment to a present
\* key keeps its position.
HasKey(d, k) == \E i \in 1..Len(d) : d[i].k = k

Get(d, k) == d[CHOOSE i \in 1..Len(d) : d[i].k = k].v

SetItem(d, k, v) ==
  IF HasKey(d, k)
  THEN [i \in 1..Len(d) |-> IF d[i].k = k THEN [k |-> k, v |-> v] ELSE d[i]]
  ELSE Append(d, [k |-> k, v |-> v])

Keys(d) == [i \in 1..Len(d) |-> d[i].k]

-----------------------------------------------------------------------------
\* Files.  A file is absent, unreadable (open or read raises an OSError), or
\* readable; the content of a readable file is given by what each pattern
\* finds in it: re.findall returns the list of matches, each the matched
\* text (no group), the group's text (one group) or the tuple of the groups'
\* texts (several groups).

StrMatch(s) == [tuple |-> FALSE, g |-> <<s>>]
TupleMatch(g) == [tuple |-> TRUE, g |-> g]

findall(pattern, content) == content[pattern]

\* m[occurrence] on a list of length n: the 1-based position, or 0 when the
\* index is out of range (IndexError).
PyIndex(occurrence, n) ==
  IF occurrence >= 0
  THEN (IF occurrence < n THEN occurrence + 1 ELSE 0)
  ELSE (IF 0 - occurrence <= n THEN n + occurrence + 1 ELSE 0)

Outcome(d, printed, exc) == [jsonFile |-> d, printed |-> printed, raised |-> exc]

Warn(kind, tag) == [kind |-> kind, tag |-> tag]

\* try: float(value) except: str(value)
Coerce(value) ==
  IF IsFloatText(value) THEN FloatV(float(value)) ELSE StrV(value)

\* if jsonTag in jsonFile: print("[WARN] Overwriting Tag", jsonTag)
OverwriteWarning(jsonTag, jsonFile) ==
  IF HasKey(jsonFile, jsonTag)
  THEN <<Warn("Overwriting Tag", jsonTag)>> ELSE <<>>

\* OnIOError that prints the warning and stores nothing.
OnIOError_NoSlot(jsonTag, jsonFile, printed) ==
  Outcome(jsonFile, printed \o <<Warn("Failed to open file", jsonTag)>>, "none")

\* OnIOError without the except clause: the IOError leaves the function.
OnIOError_Propagates(jsonTag, jsonFile, printed) ==
  Outcome(jsonFile, printed, "IOError")

\* except IOError: the warning and the "ERR" sentinel
OnIOError(jsonTag, jsonFile, printed) ==
  Outcome(SetItem(jsonFile, jsonTag, StrV(ERR)),
          printed \o <<Warn("Failed to open file", jsonTag)>>, "none")

\* if m: the count, or the selected occurrence, coerced
OnMatch(jsonTag, jsonFile, printed, m, count, occurrence) ==
  IF count
  THEN Outcome(SetItem(jsonFile, jsonTag, IntV(Len(m))), printed, "none")
  ELSE
    LET i == PyIndex(occurrence, Len(m)) IN
    IF i = 0 THEN Outcome(jsonFile, printed, "IndexError")
    \* value[arrayPos]: arrayPos is bound nowhere in the module
    ELSE IF m[i].tuple THEN Outcome(jsonFile, printed, "NameError")
    ELSE Outcome(SetItem(jsonFile, jsonTag, Coerce(strip(m[i].g[1]))),
                 printed, "none")

\* OnNoMatch that stores the built-in "N/A" whatever default was supplied.
OnNoMatch_BuiltInOnly(jsonTag, jsonFile, printed, defaultNotFound) ==
  Outcome(SetItem(jsonFile, jsonTag, StrV(NA)),
          printed \o (IF defaultNotFound = StrV(NA)
                      THEN <<Warn("not found", jsonTag)>> ELSE <<>>),
          "none")

\* else: the default, with a warning only for the built-in "N/A"
OnNoMatch(jsonTag, jsonFile, printed, defaultNotFound) ==
  Outcome(SetItem(jsonFile, jsonTag, defaultNotFound),
          printed \o (IF defaultNotFound = StrV(NA)
                      THEN <<Warn("not found", jsonTag)>> ELSE <<>>),
          "none")

extractTagFromFile(jsonTag, jsonFile, pattern, file, count, occurrence, defaultNotFound) ==
  LET printed == OverwriteWarning(jsonTag, jsonFile) IN
  IF file.state # "readable"
  THEN OnIOError(jsonTag, jsonFile, printed)
  ELSE
    LET m == findall(pattern, file.content) IN
    IF m # <<>>
    THEN OnMatch(jsonTag, jsonFile, printed, m, count, occurrence)
    ELSE OnNoMatch(jsonTag, jsonFile, printed, defaultNotFound)

-----------------------------------------------------------------------------
\* One call of extractTagFromFile on a record left by earlier extractions.

MaxMatches == 2

TagTns == <<"floorplan", "timing", "setup", "tns">>
TagRuntime == <<"synth", "runtime", "total">>
TagKeys == {TagTns, TagRuntime}

\* Patterns of the source with no group, one group and several groups.
PatViolation == "(?i)violation"
PatTns == "^tns (\\S+)"
PatTime == "^(\\S+)elapsed (\\S+)CPU (\\S+)memKB"
TagPatterns == {PatViolation, PatTns, PatTime}

Groups(pattern) ==
  CASE pattern = PatViolation -> 0 [] pattern = PatTime -> 3 [] OTHER -> 1

TxtNeg == <<"-", "0", ".", "0", "5">>
TxtPad == <<" ", "7", " ">>
TxtWord == <<"x">>
TxtClock == <<"1", ":", "0", "2">>
MatchTexts == {TxtNeg, TxtPad, TxtWord}

\* What a pattern finds at an occurrence whose text is s.
MatchOf(pattern, s) ==
  IF Groups(pattern) >= 2
  THEN TupleMatch([j \in 1..Groups(pattern) |-> s]) ELSE StrMatch(s)

SeqsUpTo(S, n) == UNION {[1..k -> S] : k \in 0..n}

Absent == [state |-> "absent", content |-> <<>>, lines |-> <<>>]
Denied == [state |-> "denied", content |-> <<>>, lines |-> <<>>]
Readable(content) == [state |-> "readable", content |-> content, lines |-> <<>>]

TagFiles ==
  {Absent, Denied} \cup
  {Readable([p \in TagPatterns |-> [i \in 1..Len(occ) |-> MatchOf(p, occ[i])]]) :
     occ \in SeqsUpTo(MatchTexts, MaxMatches)}

Occurrences == (0 - (MaxMatches + 1))..MaxMatches

Defaults == {StrV(NA), IntV(0), StrV(TxtWord)}

PriorRecords ==
  { <<>>,
    <<[k |-> TagTns, v |-> FloatV(float(TxtNeg))]>>,
    <<[k |-> TagRuntime, v |-> StrV(TxtClock)], [k |-> TagTns, v |-> StrV(ERR)]>> }

-----------------------------------------------------------------------------
\* get_skew_latency.  A line of the report is its whitespace-separated
\* tokens, plus whether the raw line starts with whitespace (str.startswith
\* looks at the raw line, str.split does not).

Line(indent, toks) == [indent |-> indent, toks |-> toks]

TokLatency == <<"L", "a", "t", "e", "n", "c", "y">>

StartsWith(s, prefix) ==
  Len(s) >= Len(prefix) /\ SubSeq(s, 1, Len(prefix)) = prefix

\* line.startswith('Latency')
startswithLatency(line) ==
  ~line.indent /\ line.toks # <<>> /\ StartsWith(line.toks[1], TokLatency)

\* The locals after lines 120-122.
InitScan ==
  [latency_section |-> FALSE,
   latency_max |-> ZeroFloat, latency_min |-> ZeroFloat, skew |-> ZeroFloat,
   worst_latency_max |-> ZeroFloat, worst_latency_min |-> ZeroFloat,
   worst_skew |-> ZeroFloat, raised |-> "none"]

\* The body of `for line in lines`, lines 125-140.
ScanLine(st, line) ==
  LET n == Len(line.toks) IN
  IF n < 1 THEN st
  ELSE IF startswithLatency(line) THEN [st EXCEPT !.latency_section = TRUE]
  ELSE IF st.latency_section /\ n = 1
  THEN IF IsFloatText(line.toks[1])
       THEN [st EXCEPT !.latency_max = float(line.toks[1])]
       ELSE [st EXCEPT !.raised = "ValueError"]
  ELSE IF st.latency_section /\ n > 2
  THEN IF IsFloatText(line.toks[1]) /\ IsFloatText(line.toks[3])
       THEN LET lmin == float(line.toks[1])
                sk == float(line.toks[3])
            IN IF FloatGt(sk, st.worst_skew)
               THEN [st EXCEPT !.latency_min = lmin, !.skew = sk,
                               !.worst_skew = sk,
                               !.worst_latency_max = st.latency_max,
                               !.worst_latency_min = lmin,
                               !.latency_section = FALSE]
               ELSE [st EXCEPT !.latency_min = lmin, !.skew = sk,
                               !.latency_section = FALSE]
       ELSE [st EXCEPT !.raised = "ValueError"]
  ELSE st

RECURSIVE ScanLines(_, _, _)
ScanLines(st, lines, i) ==
  IF i > Len(lines) \/ st.raised # "none" THEN st
  ELSE ScanLines(ScanLine(st, lines[i]), lines, i + 1)

ErrTriple == <<StrV(ERR), StrV(ERR), StrV(ERR)>>

\* return(worst_latency_max, worst_latency_min, worst_skew)
WorstTriple(st) ==
  <<FloatV(st.worst_latency_max), FloatV(st.worst_latency_min),
    FloatV(st.worst_skew)>>

\* The whole function: [triple, printed, raised].
get_skew_latency(file) ==
  IF file.state # "readable"
  THEN [triple |-> ErrTriple,
        printed |-> <<Warn("Failed to open file", <<>>)>>, raised |-> "none"]
  ELSE LET st == ScanLines(InitScan, file.lines, 1) IN
       [triple |-> IF st.raised = "none" THEN WorstTriple(st) ELSE <<>>,
        printed |-> <<>>, raised |-> st.raised]

\* Reports.  A complete latency block as report_clock_skew prints it: the
\* heading, a pin line, the maximum latency alone on its line, a pin line,
\* and the line of minimum latency, CRPR and skew.

MaxBlocks == 2
MaxLines == 3

TokPin == <<"c", "k">>
TokEdge == <<"^">>
TokCRPR == <<"C", "R", "P", "R">>
TokSkew == <<"S", "k", "e", "w">>
Tok0 == <<"0", ".", "0">>
Tok01 == <<"0", ".", "1">>
Tok02 == <<"0", ".", "2">>
Tok03 == <<"0", ".", "3">>
Tok05 == <<"0", ".", "5">>
Tok07 == <<"0", ".", "7">>

HeadingLine == Line(FALSE, <<TokLatency, TokCRPR, TokSkew>>)
PinLine == Line(FALSE, <<TokPin, TokEdge>>)
MaxLine(v) == Line(TRUE, <<v>>)
MinSkewLine(lmin, sk) == Line(TRUE, <<lmin, Tok0, sk>>)
BlankLine == Line(FALSE, <<>>)

Block(b) ==
  <<HeadingLine, PinLine, MaxLine(b.max), PinLine, MinSkewLine(b.min, b.skew)>>

BlockSet == [max : {Tok02, Tok05}, min : {Tok01, Tok02}, skew : {Tok0, Tok03, Tok07}]

RECURSIVE Flatten(_)
Flatten(bs) == IF bs = <<>> THEN <<>> ELSE Block(Head(bs)) \o Flatten(Tail(bs))

LineSet ==
  { BlankLine, HeadingLine, Line(TRUE, <<TokLatency>>), PinLine,
    MaxLine(Tok05), MaxLine(Tok02), Line(FALSE, <<TokPin>>),
    MinSkewLine(Tok01, Tok03), MinSkewLine(Tok02, Tok07),
    Line(FALSE, <<TokPin, TokEdge, TokSkew>>) }

Report(state, lines, blocks) == [state |-> state, lines |-> lines, blocks |-> blocks]

Reports ==
  {Report("absent", <<>>, <<>>)}
  \cup {Report("readable", Flatten(bs), bs) :
          bs \in SeqsUpTo(BlockSet, MaxBlocks) \ {<<>>}}
  \cup {Report("readable", ls, <<>>) : ls \in SeqsUpTo(LineSet, MaxLines)}

NoReport == Report("absent", <<>>, <<>>)

-----------------------------------------------------------------------------
\* read_sdc.

\* The characters of the texts below, in code point order.
CodePoints ==
  <<" ", "-", ".", "/", "0", "1", "2", "3", "4", "5", "6", "7", "8", "9", ":",
    "A", "C", "E", "L", "N", "P", "R", "S", "[", "^", "_", "a", "b", "c", "d",
    "e", "g", "i", "k", "l", "m", "n", "o", "p", "r", "s", "t", "w", "x", "y">>

ord(c) == CHOOSE i \in 1..Len(CodePoints) : CodePoints[i] = c

\* a < b on str
RECURSIVE StrLess(_, _)
StrLess(a, b) ==
  IF b = <<>> THEN FALSE
  ELSE IF a = <<>> THEN TRUE
  ELSE IF Head(a) = Head(b) THEN StrLess(Tail(a), Tail(b))
  ELSE ord(Head(a)) < ord(Head(b))

RECURSIVE InsertSorted(_, _)
InsertSorted(x, l) ==
  IF l = <<>> THEN <<x>>
  ELSE IF StrLess(x, Head(l)) THEN <<x>> \o l
  ELSE <<Head(l)>> \o InsertSorted(x, Tail(l))

\* list.sort() left out: the list in file order.
sort_FileOrder(l) == l

\* list.sort() on a list of str
RECURSIVE sort(_)
sort(l) == IF l = <<>> THEN <<>> ELSE InsertSorted(Head(l), sort(Tail(l)))

TokCreateClock == <<"c", "r", "e", "a", "t", "e", "_", "c", "l", "o", "c", "k">>
TokName == <<"-", "n", "a", "m", "e">>
TokPeriod == <<"-", "p", "e", "r", "i", "o", "d">>

\* list.index(x): the first position of x, 0 when absent (ValueError)
index(toks, x) ==
  IF \E i \in 1..Len(toks) : toks[i] = x
  THEN CHOOSE i \in 1..Len(toks) :
         toks[i] = x /\ \A j \in 1..(i - 1) : toks[j] # x
  ELSE 0

\* "%s: %s" % (clkName, period)
FormatClock(clkName, period) == clkName \o <<":", " ">> \o period

\* The body of `for line in lines`, lines 163-172, on [clkList, raised].
SdcLine(st, line) ==
  LET toks == line.toks IN
  IF Len(toks) < 2 THEN st
  ELSE IF toks[1] = TokCreateClock
  THEN LET clk_idx == index(toks, TokName)
           period_idx == index(toks, TokPeriod)
       IN IF clk_idx = 0 THEN [st EXCEPT !.raised = "ValueError"]
          ELSE IF clk_idx + 1 > Len(toks) THEN [st EXCEPT !.raised = "IndexError"]
          ELSE IF period_idx = 0 THEN [st EXCEPT !.raised = "ValueError"]
          ELSE IF period_idx + 1 > Len(toks) THEN [st EXCEPT !.raised = "IndexError"]
          ELSE [st EXCEPT !.clkList =
                  Append(@, FormatClock(toks[clk_idx + 1], toks[period_idx + 1]))]
  ELSE st

RECURSIVE SdcLines(_, _, _)
SdcLines(st, lines, i) ==
  IF i > Len(lines) \/ st.raised # "none" THEN st
  ELSE SdcLines(SdcLine(st, lines[i]), lines, i + 1)

\* The whole function: [clkList, printed, raised].
read_sdc(file) ==
  IF file.state # "readable"
  THEN [clkList |-> <<>>,
        printed |-> <<Warn("Failed to open file", <<>>)>>, raised |-> "none"]
  ELSE LET st == SdcLines([clkList |-> <<>>, raised |-> "none"], file.lines, 1) IN
       [clkList |-> IF st.raised = "none" THEN sort(st.clkList) ELSE <<>>,
        printed |-> <<>>, raised |-> st.raised]

KeyClocksCount == <<"constraints", "clocks", "count">>
KeyClocksDetails == <<"constraints", "clocks", "details">>

\* lines 243-244
ClockFields(d, clk_list) ==
  SetItem(SetItem(d, KeyClocksCount, IntV(Len(clk_list))),
          KeyClocksDetails, ListV(clk_list))

MaxSdcLines == 3

TokClk1 == <<"c", "l", "k", "1">>
TokClk2 == <<"c", "l", "k", "2">>
TokClk10 == <<"c", "l", "k", "1", "0">>
Tok5 == <<"5">>
Tok10 == <<"1", "0">>
TokPorts == <<"[", "g", "e", "t", "_", "p", "o", "r", "t", "s">>
TokSet == <<"s", "e", "t">>

ClockLine(clkName, period) ==
  Line(FALSE, <<TokCreateClock, TokName, clkName, TokPeriod, period, TokPorts>>)

SdcLineSet ==
  {ClockLine(n, p) : n \in {TokClk1, TokClk2, TokClk10}, p \in {Tok5, Tok10}}
  \cup { Line(TRUE, <<TokCreateClock, TokPeriod, Tok5, TokName, TokClk1>>),
         BlankLine,
         Line(FALSE, <<TokCreateClock>>),
         Line(FALSE, <<TokSet, TokCreateClock, TokName, TokClk2>>),
         Line(FALSE, <<TokCreateClock, TokPeriod, Tok5, TokPorts>>),
         Line(FALSE, <<TokCreateClock, TokPeriod, Tok5, TokName>>) }

SdcFile(state, lines) == [state |-> state, content |-> <<>>, lines |-> lines]

SdcFiles ==
  {SdcFile("absent", <<>>)}
  \cup {SdcFile("readable", ls) : ls \in SeqsUpTo(SdcLineSet, MaxSdcLines)}

-----------------------------------------------------------------------------
\* extractGnuTime and extract_metrics.

PatElapsed == "^(\\S+)elapsed \\S+CPU \\S+memKB"
PatCpu == "^\\S+elapsed (\\S+)CPU \\S+memKB"
PatMem == "^\\S+elapsed \\S+CPU (\\S+)memKB"

\* A call of extractTagFromFile in a sequence of statements: skipped once
\* an exception is on its way out.
TagStep(st, jsonTag, pattern, file, count, occurrence, defaultNotFound) ==
  IF st.raised # "none" THEN st
  ELSE LET r == extractTagFromFile(jsonTag, st.jsonFile, pattern, file, count,
                                   occurrence, defaultNotFound)
       IN Outcome(r.jsonFile, st.printed \o r.printed, r.raised)

extractGnuTime(prefix, jsonFile, file) ==
  LET s0 == Outcome(jsonFile, <<>>, "none")
      s1 == TagStep(s0, prefix \o <<"runtime", "total">>, PatElapsed, file,
                    FALSE, -1, StrV(NA))
      s2 == TagStep(s1, prefix \o <<"cpu", "total">>, PatCpu, file,
                    FALSE, -1, StrV(NA))
  IN TagStep(s2, prefix \o <<"mem", "peak">>, PatMem, file, FALSE, -1, StrV(NA))

\* The statements of extract_metrics that fill the record, lines 195-437, in
\* order: "set" a provenance field, "tag" extractTagFromFile, "gnu"
\* extractGnuTime, "sdc" read_sdc with its two fields, "skew"
\* get_skew_latency with its three fields.
ExtractionSequence ==
  <<
    [op |-> "set", key |-> <<"run", "flow", "generate", "date">>, pattern |-> "date", file |-> "", count |-> FALSE,
     occurrence |-> 0, defaultNotFound |-> StrV(NA), line |-> 195],
    [op |-> "set", key |-> <<"run", "flow", "openroad", "version">>, pattern |-> "openroad_version", file |-> "", count |-> FALSE,
     occurrence |-> 0, defaultNotFound |-> StrV(NA), line |-> 198],
    [op |-> "set", key |-> <<"run", "flow", "openroad", "commit">>, pattern |-> "openroad_commit", file |-> "", count |-> FALSE,
     occurrence |-> 0, defaultNotFound |-> StrV(NA), line |-> 200],
    [op |-> "set", key |-> <<"run", "flow", "scripts", "commit">>, pattern |-> "scripts_commit", file |-> "", count |-> FALSE,
     occurrence |-> 0, defaultNotFound |-> StrV(NA), line |-> 209],
    [op |-> "set", key |-> <<"run", "flow", "uuid">>, pattern |-> "uuid", file |-> "", count |-> FALSE,
     occurrence |-> 0, defaultNotFound |-> StrV(NA), line |-> 210],
    [op |-> "set", key |-> <<"run", "flow", "design">>, pattern |-> "design", file |-> "", count |-> FALSE,
     occurrence |-> 0, defaultNotFound |-> StrV(NA), line |-> 211],
    [op |-> "set", key |-> <<"run", "flow", "platform">>, pattern |-> "platform", file |-> "", count |-> FALSE,
     occurrence |-> 0, defaultNotFound |-> StrV(NA), line |-> 212],
    [op |-> "set", key |-> <<"run", "flow", "platform", "commit">>, pattern |-> "platform_commit", file |-> "", count |-> FALSE,
     occurrence |-> 0, defaultNotFound |-> StrV(NA), line |-> 223],
    [op |-> "set", key |-> <<"run", "flow", "variant">>, pattern |-> "variant", file |-> "", count |-> FALSE,
     occurrence |-> 0, defaultNotFound |-> StrV(NA), line |-> 224],
    [op |-> "tag", key |-> <<"synth", "design", "instance", "stdcell", "count">>, pattern |-> "Number of cells: +(\\S+)", file |-> "reports/synth_stat.txt", count |-> FALSE,
     occurrence |-> -1, defaultNotFound |-> StrV(NA), line |-> 229],
    [op |-> "tag", key |-> <<"synth", "design", "instance", "stdcell", "area">>, pattern |-> "Chip area for module.*: +(\\S+)", file |-> "reports/synth_stat.txt", count |-> FALSE,
     occurrence |-> -1, defaultNotFound |-> StrV(NA), line |-> 233],
    [op |-> "gnu", key |-> <<"synth">>, pattern |-> "", file |-> "logs/1_1_yosys.log", count |-> FALSE,
     occurrence |-> -1, defaultNotFound |-> StrV(NA), line |-> 237],
    [op |-> "sdc", key |-> <<>>, pattern |-> "", file |-> "results/2_floorplan.sdc", count |-> FALSE,
     occurrence |-> 0, defaultNotFound |-> StrV(NA), line |-> 242],
    [op |-> "tag", key |-> <<"floorplan", "timing", "setup", "tns">>, pattern |-> "^tns (\\S+)", file |-> "logs/2_1_floorplan.log", count |-> FALSE,
     occurrence |-> -1, defaultNotFound |-> StrV(NA), line |-> 249],
    [op |-> "tag", key |-> <<"floorplan", "timing", "setup", "wns">>, pattern |-> "^wns (\\S+)", file |-> "logs/2_1_floorplan.log", count |-> FALSE,
     occurrence |-> 0, defaultNotFound |-> StrV(NA), line |-> 253],
    [op |-> "tag", key |-> <<"floorplan", "design", "instance", "stdcell", "area">>, pattern |-> "^Design area (\\S+) u\\^2", file |-> "logs/2_1_floorplan.log", count |-> FALSE,
     occurrence |-> -1, defaultNotFound |-> StrV(NA), line |-> 257],
    [op |-> "tag", key |-> <<"floorplan", "design", "instance", "design", "util">>, pattern |-> "^Design area.* (\\S+)% utilization", file |-> "logs/2_1_floorplan.log", count |-> FALSE,
     occurrence |-> -1, defaultNotFound |-> StrV(NA), line |-> 261],
    [op |-> "tag", key |-> <<"floorplan", "design", "io", "count">>, pattern |-> "Num of I/O +(\\d+)", file |-> "logs/3_2_place_iop.log", count |-> FALSE,
     occurrence |-> -1, defaultNotFound |-> StrV(NA), line |-> 265],
    [op |-> "tag", key |-> <<"floorplan", "design", "instance", "macros", "count">>, pattern |-> "Extracted # Macros: (\\S+)", file |-> "logs/2_4_mplace.log", count |-> FALSE,
     occurrence |-> -1, defaultNotFound |-> IntV(0), line |-> 269],
    [op |-> "gnu", key |-> <<"floorplan">>, pattern |-> "", file |-> "logs/2_4_mplace.log", count |-> FALSE,
     occurrence |-> -1, defaultNotFound |-> StrV(NA), line |-> 273],
    [op |-> "tag", key |-> <<"globalplace", "route", "wirelength", "estimated">>, pattern |-> "Total wirelength: (\\S+)", file |-> "logs/3_1_place_gp.log", count |-> FALSE,
     occurrence |-> -1, defaultNotFound |-> StrV(NA), line |-> 278],
    [op |-> "tag", key |-> <<"globalplace", "timing", "setup", "tns">>, pattern |-> "^tns (\\S+)", file |-> "logs/3_1_place_gp.log", count |-> FALSE,
     occurrence |-> -1, defaultNotFound |-> StrV(NA), line |-> 282],
    [op |-> "tag", key |-> <<"globalplace", "timing", "setup", "wns">>, pattern |-> "^wns (\\S+)", file |-> "logs/3_1_place_gp.log", count |-> FALSE,
     occurrence |-> -1, defaultNotFound |-> StrV(NA), line |-> 286],
    [op |-> "gnu", key |-> <<"globalplace">>, pattern |-> "", file |-> "logs/3_1_place_gp.log", count |-> FALSE,
     occurrence |-> -1, defaultNotFound |-> StrV(NA), line |-> 290],
    [op |-> "tag", key |-> <<"placeopt", "timing", "setup", "tns">>, pattern |-> "^tns (\\S+)", file |-> "logs/3_3_resizer.log", count |-> FALSE,
     occurrence |-> -1, defaultNotFound |-> StrV(NA), line |-> 292],
    [op |-> "tag", key |-> <<"placeopt", "timing", "setup", "wns">>, pattern |-> "^wns (\\S+)", file |-> "logs/3_3_resizer.log", count |-> FALSE,
     occurrence |-> -1, defaultNotFound |-> StrV(NA), line |-> 296],
    [op |-> "tag", key |-> <<"placeopt", "design", "instance", "design", "area">>, pattern |-> "^Design area (\\S+) u\\^2", file |-> "logs/3_3_resizer.log", count |-> FALSE,
     occurrence |-> -1, defaultNotFound |-> StrV(NA), line |-> 300],
    [op |-> "tag", key |-> <<"placeopt", "design", "instance", "design", "util">>, pattern |-> "^Design area.* (\\S+)% utilization", file |-> "logs/3_3_resizer.log", count |-> FALSE,
     occurrence |-> -1, defaultNotFound |-> StrV(NA), line |-> 304],
    [op |-> "tag", key |-> <<"placeopt", "design", "instance", "stdcell", "count">>, pattern |-> "^instance_count\n-*\n^(\\S+)", file |-> "logs/3_3_resizer.log", count |-> FALSE,
     occurrence |-> -1, defaultNotFound |-> StrV(NA), line |-> 308],
    [op |-> "gnu", key |-> <<"placeopt">>, pattern |-> "", file |-> "logs/3_3_resizer.log", count |-> FALSE,
     occurrence |-> -1, defaultNotFound |-> StrV(NA), line |-> 312],
    [op |-> "tag", key |-> <<"detailedplace", "timing", "setup", "tns">>, pattern |-> "^tns (\\S+)", file |-> "logs/3_4_opendp.log", count |-> FALSE,
     occurrence |-> -1, defaultNotFound |-> StrV(NA), line |-> 314],
    [op |-> "tag", key |-> <<"detailedplace", "timing", "setup", "wns">>, pattern |-> "^wns (\\S+)", file |-> "logs/3_4_opendp.log", count |-> FALSE,
     occurrence |-> -1, defaultNotFound |-> StrV(NA), line |-> 318],
    [op |-> "tag", key |-> <<"detailedplace", "design", "instance", "displacement">>, pattern |-> "total displacement +(\\d*\\.?\\d*)", file |-> "logs/3_4_opendp.log", count |-> FALSE,
     occurrence |-> -1, defaultNotFound |-> StrV(NA), line |-> 322],
    [op |-> "tag", key |-> <<"detailedplace", "design", "instance", "displacement", "mean">>, pattern |-> "average displacement +(\\d*\\.?\\d*)", file |-> "logs/3_4_opendp.log", count |-> FALSE,
     occurrence |-> -1, defaultNotFound |-> StrV(NA), line |-> 326],
    [op |-> "tag", key |-> <<"detailedplace", "desgin", "instance", "displacement", "max">>, pattern |-> "max displacement +(\\d*\\.?\\d*)", file |-> "logs/3_4_opendp.log", count |-> FALSE,
     occurrence |-> -1, defaultNotFound |-> StrV(NA), line |-> 330],
    [op |-> "tag", key |-> <<"detailedplace", "route", "wirelength", "estimated">>, pattern |-> "legalized HPWL +(\\d*\\.?\\d*)", file |-> "logs/3_4_opendp.log", count |-> FALSE,
     occurrence |-> -1, defaultNotFound |-> StrV(NA), line |-> 334],
    [op |-> "gnu", key |-> <<"detailedplace">>, pattern |-> "", file |-> "logs/3_4_opendp.log", count |-> FALSE,
     occurrence |-> -1, defaultNotFound |-> StrV(NA), line |-> 338],
    [op |-> "skew", key |-> <<"cts">>, pattern |-> "", file |-> "logs/4_1_cts.log", count |-> FALSE,
     occurrence |-> 0, defaultNotFound |-> StrV(NA), line |-> 343],
    [op |-> "tag", key |-> <<"cts", "timing", "setup", "tns", "prerepair">>, pattern |-> "^post cts-pre-repair.*report_tns\n^-*\n^tns (\\S+)", file |-> "logs/4_1_cts.log", count |-> FALSE,
     occurrence |-> -1, defaultNotFound |-> StrV(NA), line |-> 348],
    [op |-> "tag", key |-> <<"cts", "timing", "setup", "wns", "prerepair">>, pattern |-> "^post cts-pre-repair.*report_wns\n^-*\n^wns (\\S+)", file |-> "logs/4_1_cts.log", count |-> FALSE,
     occurrence |-> -1, defaultNotFound |-> StrV(NA), line |-> 352],
    [op |-> "tag", key |-> <<"cts", "timing", "setup", "tns">>, pattern |-> "^post cts.*report_tns\n^-*\n^tns (\\S+)", file |-> "logs/4_1_cts.log", count |-> FALSE,
     occurrence |-> -1, defaultNotFound |-> StrV(NA), line |-> 356],
    [op |-> "tag", key |-> <<"cts", "timing", "setup", "wns">>, pattern |-> "^post cts.*report_wns\n^-*\n^wns (\\S+)", file |-> "logs/4_1_cts.log", count |-> FALSE,
     occurrence |-> -1, defaultNotFound |-> StrV(NA), line |-> 360],
    [op |-> "tag", key |-> <<"cts", "design", "instance", "hold_buffer", "count">>, pattern |-> "Inserted (\\d+) hold buffers", file |-> "logs/4_1_cts.log", count |-> FALSE,
     occurrence |-> -1, defaultNotFound |-> StrV(NA), line |-> 364],
    [op |-> "skew", key |-> <<"globalroute">>, pattern |-> "", file |-> "logs/5_1_fastroute.log", count |-> FALSE,
     occurrence |-> 0, defaultNotFound |-> StrV(NA), line |-> 371],
    [op |-> "tag", key |-> <<"globalroute", "timing", "setup", "tns">>, pattern |-> "^tns (\\S+)", file |-> "logs/5_1_fastroute.log", count |-> FALSE,
     occurrence |-> -1, defaultNotFound |-> StrV(NA), line |-> 377],
    [op |-> "tag", key |-> <<"globalroute", "timing", "setup", "wns">>, pattern |-> "^wns (\\S+)", file |-> "logs/5_1_fastroute.log", count |-> FALSE,
     occurrence |-> -1, defaultNotFound |-> StrV(NA), line |-> 381],
    [op |-> "tag", key |-> <<"globalroute", "timing", "clock", "slack">>, pattern |-> "^\\[INFO FLW-....\\] Clock .* slack (\\S+)", file |-> "logs/5_1_fastroute.log", count |-> FALSE,
     occurrence |-> -1, defaultNotFound |-> StrV(NA), line |-> 385],
    [op |-> "tag", key |-> <<"globalroute", "timing", "clock", "period">>, pattern |-> "^\\[INFO FLW-....\\] Clock .* period (\\S+)", file |-> "logs/5_1_fastroute.log", count |-> FALSE,
     occurrence |-> -1, defaultNotFound |-> StrV(NA), line |-> 389],
    [op |-> "gnu", key |-> <<"globalroute">>, pattern |-> "", file |-> "logs/5_1_fastroute.log", count |-> FALSE,
     occurrence |-> -1, defaultNotFound |-> StrV(NA), line |-> 393],
    [op |-> "tag", key |-> <<"detailedroute", "route", "wirelength">>, pattern |-> "total wire length = +(\\S+) um", file |-> "logs/5_2_TritonRoute.log", count |-> FALSE,
     occurrence |-> -1, defaultNotFound |-> StrV(NA), line |-> 395],
    [op |-> "tag", key |-> <<"detailedroute", "route", "via", "count">>, pattern |-> "total number of vias = +(\\S+)", file |-> "logs/5_2_TritonRoute.log", count |-> FALSE,
     occurrence |-> -1, defaultNotFound |-> StrV(NA), line |-> 399],
    [op |-> "tag", key |-> <<"detailedroute", "route", "drc_errors", "count">>, pattern |-> "(?i)violation", file |-> "reports/5_route_drc.rpt", count |-> TRUE,
     occurrence |-> -1, defaultNotFound |-> IntV(0), line |-> 403],
    [op |-> "gnu", key |-> <<"detailedroute">>, pattern |-> "", file |-> "logs/5_2_TritonRoute.log", count |-> FALSE,
     occurrence |-> -1, defaultNotFound |-> StrV(NA), line |-> 408],
    [op |-> "tag", key |-> <<"finish", "power", "internal", "total">>, pattern |-> "Total +(\\S+) +\\S+ +\\S+ +\\S+ +\\S+", file |-> "logs/6_report.log", count |-> FALSE,
     occurrence |-> -1, defaultNotFound |-> StrV(NA), line |-> 413],
    [op |-> "tag", key |-> <<"finish", "power", "switch", "total">>, pattern |-> "Total +\\S+ +(\\S+) +\\S+ +\\S+ +\\S+", file |-> "logs/6_report.log", count |-> FALSE,
     occurrence |-> -1, defaultNotFound |-> StrV(NA), line |-> 417],
    [op |-> "tag", key |-> <<"finish", "power", "leakage", "total">>, pattern |-> "Total +\\S+ +\\S+ +(\\S+) +\\S+ +\\S+", file |-> "logs/6_report.log", count |-> FALSE,
     occurrence |-> -1, defaultNotFound |-> StrV(NA), line |-> 421],
    [op |-> "tag", key |-> <<"finish", "power", "total">>, pattern |-> "Total +\\S+ +\\S+ +\\S+ +(\\S+) +\\S+", file |-> "logs/6_report.log", count |-> FALSE,
     occurrence |-> -1, defaultNotFound |-> StrV(NA), line |-> 425],
    [op |-> "tag", key |-> <<"finish", "design", "instance", "area">>, pattern |-> "^Design area (\\S+) u\\^2", file |-> "logs/6_report.log", count |-> FALSE,
     occurrence |-> -1, defaultNotFound |-> StrV(NA), line |-> 429],
    [op |-> "tag", key |-> <<"finish", "design", "instance", "utilization">>, pattern |-> "^Design area.* (\\S+)% utilization", file |-> "logs/6_report.log", count |-> FALSE,
     occurrence |-> -1, defaultNotFound |-> StrV(NA), line |-> 433],
    [op |-> "gnu", key |-> <<"finish">>, pattern |-> "", file |-> "logs/6_report.log", count |-> FALSE,
     occurrence |-> -1, defaultNotFound |-> StrV(NA), line |-> 437]
  >>

FileIds ==
  {"reports/synth_stat.txt",
   "logs/1_1_yosys.log",
   "results/2_floorplan.sdc",
   "logs/2_1_floorplan.log",
   "logs/3_2_place_iop.log",
   "logs/2_4_mplace.log",
   "logs/3_1_place_gp.log",
   "logs/3_3_resizer.log",
   "logs/3_4_opendp.log",
   "logs/4_1_cts.log",
   "logs/5_1_fastroute.log",
   "logs/5_2_TritonRoute.log",
   "reports/5_route_drc.rpt",
   "logs/6_report.log"}

TimedLogs ==
  {"logs/1_1_yosys.log",
   "logs/2_4_mplace.log",
   "logs/3_1_place_gp.log",
   "logs/3_3_resizer.log",
   "logs/3_4_opendp.log",
   "logs/5_1_fastroute.log",
   "logs/5_2_TritonRoute.log",
   "logs/6_report.log"}

MetricPatterns ==
  {"Number of cells: +(\\S+)",
   "Chip area for module.*: +(\\S+)",
   "^tns (\\S+)",
   "^wns (\\S+)",
   "^Design area (\\S+) u\\^2",
   "^Design area.* (\\S+)% utilization",
   "Num of I/O +(\\d+)",
   "Extracted # Macros: (\\S+)",
   "Total wirelength: (\\S+)",
   "^instance_count\n-*\n^(\\S+)",
   "total displacement +(\\d*\\.?\\d*)",
   "average displacement +(\\d*\\.?\\d*)",
   "max displacement +(\\d*\\.?\\d*)",
   "legalized HPWL +(\\d*\\.?\\d*)",
   "^post cts-pre-repair.*report_tns\n^-*\n^tns (\\S+)",
   "^post cts-pre-repair.*report_wns\n^-*\n^wns (\\S+)",
   "^post cts.*report_tns\n^-*\n^tns (\\S+)",
   "^post cts.*report_wns\n^-*\n^wns (\\S+)",
   "Inserted (\\d+) hold buffers",
   "^\\[INFO FLW-....\\] Clock .* slack (\\S+)",
   "^\\[INFO FLW-....\\] Clock .* period (\\S+)",
   "total wire length = +(\\S+) um",
   "total number of vias = +(\\S+)",
   "(?i)violation",
   "Total +(\\S+) +\\S+ +\\S+ +\\S+ +\\S+",
   "Total +\\S+ +(\\S+) +\\S+ +\\S+ +\\S+",
   "Total +\\S+ +\\S+ +(\\S+) +\\S+ +\\S+",
   "Total +\\S+ +\\S+ +\\S+ +(\\S+) +\\S+"}

RunPatterns == MetricPatterns \cup {PatElapsed, PatCpu, PatMem}

\* The state of a file of the run: absent, readable with no match of any
\* pattern and no line, or readable with matches, the elapsed time of its
\* GNU time line being rt.
ProfAbsent == [kind |-> "absent", rt |-> <<>>]
ProfEmpty == [kind |-> "empty", rt |-> <<>>]
ProfGood(rt) == [kind |-> "good", rt |-> rt]

TxtCpu == <<"9", "9", "%">>
TxtMem == <<"1", "0", "2", "4">>
TxtArea == <<"1", ".", "5">>
TxtViolation == <<"v", "i", "o", "l", "a", "t", "i", "o", "n">>

GoodMatches(pattern, rt) ==
  CASE pattern = PatElapsed -> <<StrMatch(rt)>>
    [] pattern = PatCpu -> <<StrMatch(TxtCpu)>>
    [] pattern = PatMem -> <<StrMatch(TxtMem)>>
    [] pattern = PatViolation -> <<StrMatch(TxtViolation), StrMatch(TxtViolation)>>
    [] OTHER -> <<StrMatch(TxtArea), StrMatch(TxtNeg)>>

GoodBlock == [max |-> Tok05, min |-> Tok02, skew |-> Tok03]

GoodLines(f) ==
  CASE f = "results/2_floorplan.sdc" ->
         <<ClockLine(TokClk2, Tok5), ClockLine(TokClk1, Tok10)>>
    [] f \in {"logs/4_1_cts.log", "logs/5_1_fastroute.log"} -> Block(GoodBlock)
    [] OTHER -> <<>>

File(f, prof) ==
  CASE prof.kind = "absent" -> Absent
    [] prof.kind = "empty" ->
         [state |-> "readable", content |-> [p \in RunPatterns |-> <<>>],
          lines |-> <<>>]
    [] OTHER ->
         [state |-> "readable",
          content |-> [p \in RunPatterns |-> GoodMatches(p, prof.rt)],
          lines |-> GoodLines(f)]

Now == <<"2", "0", "2", "1", "-", "0", "1", "-", "0", "1", " ", "0", "0", ":", "0", "0">>
HeadCommit == <<"a", "1", "b", "2">>
NotARepo == <<"n", "o", "t", " ", "a", " ", "g", "i", "t", " ", "r", "e", "p", "o">>

\* The value a provenance statement stores, lines 195-224.
ProvValue(src, r) ==
  CASE src = "date" -> StrV(Now)
    [] src = "openroad_version" -> StrV(r.cmdFields[1])
    [] src = "openroad_commit" ->
         IF Len(r.cmdFields) > 1 THEN StrV(r.cmdFields[2]) ELSE StrV(NA)
    [] src = "scripts_commit" ->
         IF r.gitRepo THEN StrV(HeadCommit) ELSE StrV(NotARepo)
    [] src = "uuid" -> StrV(r.uuid)
    [] src = "design" -> StrV(r.design)
    [] src = "platform" -> StrV(r.platform)
    [] src = "platform_commit" ->
         IF r.platformDir = "repo" THEN StrV(HeadCommit) ELSE StrV(NA)
    [] src = "variant" -> StrV(r.variant)

ProvPrinted(src, r) ==
  IF src = "scripts_commit" /\ ~r.gitRepo THEN <<Warn("not a git repo", <<>>)>>
  ELSE IF src = "platform_commit" /\ r.platformDir = "unset"
  THEN <<Warn("PLATFORM_DIR env variable not set", <<>>)>>
  ELSE IF src = "platform_commit" /\ r.platformDir # "repo"
  THEN <<Warn("not a git repo", <<>>)>>
  ELSE <<>>

\* One statement of the sequence on [jsonFile, printed, raised].
RunStep(st, step, r) ==
  IF st.raised # "none" THEN st
  ELSE
    CASE step.op = "set" ->
           Outcome(SetItem(st.jsonFile, step.key, ProvValue(step.pattern, r)),
                   st.printed \o ProvPrinted(step.pattern, r), "none")
      [] step.op = "tag" ->
           TagStep(st, step.key, step.pattern, File(step.file, r.fs[step.file]),
                   step.count, step.occurrence, step.defaultNotFound)
      [] step.op = "gnu" ->
           LET g == extractGnuTime(step.key, st.jsonFile,
                                   File(step.file, r.fs[step.file]))
           IN Outcome(g.jsonFile, st.printed \o g.printed, g.raised)
      [] step.op = "sdc" ->
           LET c == read_sdc(File(step.file, r.fs[step.file])) IN
           IF c.raised # "none"
           THEN Outcome(st.jsonFile, st.printed \o c.printed, c.raised)
           ELSE Outcome(ClockFields(st.jsonFile, c.clkList),
                        st.printed \o c.printed, "none")
      [] step.op = "skew" ->
           LET k == get_skew_latency(File(step.file, r.fs[step.file])) IN
           IF k.raised # "none"
           THEN Outcome(st.jsonFile, st.printed \o k.printed, k.raised)
           ELSE Outcome(
                  SetItem(SetItem(SetItem(st.jsonFile,
                    step.key \o <<"clock", "latency", "min">>, k.triple[2]),
                    step.key \o <<"clock", "latency", "max">>, k.triple[1]),
                    step.key \o <<"clock", "skew", "worst">>, k.triple[3]),
                  st.printed \o k.printed, "none")

\* The statements lo..hi of the sequence, in order: the first half, then,
\* unless an exception is on its way out, the second half on what the first
\* half left.
RECURSIVE RunSteps(_, _, _, _, _)
RunSteps(st, steps, lo, hi, r) ==
  IF lo > hi THEN st
  ELSE IF lo = hi THEN RunStep(st, steps[lo], r)
  ELSE LET first == RunSteps(st, steps, lo, (lo + hi) \div 2, r) IN
       IF first.raised # "none" THEN first
       ELSE RunSteps(first, steps, (lo + hi) \div 2 + 1, hi, r)

\* lines 194-437
Extract(r) ==
  RunSteps(Outcome(<<>>, <<>>, "none"), ExtractionSequence, 1,
           Len(ExtractionSequence), r)

\* key.endswith("__runtime__total"), on a key given by its segments
endswithRuntimeTotal(key) ==
  Len(key) >= 3 /\ SubSeq(key, Len(key) - 1, Len(key)) = <<"runtime", "total">>

\* str.split(sep) for a one-character sep
RECURSIVE Split(_, _)
Split(s, sep) ==
  IF \A i \in 1..Len(s) : s[i] # sep THEN <<s>>
  ELSE LET i == CHOOSE j \in 1..Len(s) :
                  s[j] = sep /\ \A k \in 1..(j - 1) : s[k] # sep
       IN <<SubSeq(s, 1, i - 1)>> \o Split(SubSeq(s, i + 1, Len(s)), sep)

\* A directive of one or two digits with a value up to max.
TimeField(s, max) ==
  /\ Len(s) \in 1..2
  /\ \A i \in 1..Len(s) : s[i] \in Digit
  /\ DigitsValue(s) <= max

\* %f: one to six digits
FractionField(s) == Len(s) \in 1..6 /\ \A i \in 1..Len(s) : s[i] \in Digit

NoTime == [ok |-> FALSE, hour |-> 0, minute |-> 0, second |-> 0, microsecond |-> 0]

FmtHMSf == "%H:%M:%S.%f"
FmtMSf == "%M:%S.%f"
FmtHMS == "%H:%M:%S"
FmtMS == "%M:%S"

\* datetime.strptime(s, fmt) for the four formats of the chain; ok is FALSE
\* for ValueError.
strptime(s, fmt) ==
  LET fields == Split(s, ":")
      withHour == fmt \in {FmtHMSf, FmtHMS}
      withFraction == fmt \in {FmtHMSf, FmtMSf}
      n == IF withHour THEN 3 ELSE 2
  IN
  IF Len(fields) # n THEN NoTime
  ELSE
    LET sec == Split(fields[n], ".")
        H == IF withHour THEN fields[1] ELSE <<"0">>
        M == fields[n - 1]
    IN
    IF /\ Len(sec) = (IF withFraction THEN 2 ELSE 1)
       /\ TimeField(H, 23)
       /\ TimeField(M, 59)
       /\ TimeField(sec[1], 59)
       /\ withFraction => FractionField(sec[2])
    THEN [ok |-> TRUE, hour |-> DigitsValue(H), minute |-> DigitsValue(M),
          second |-> DigitsValue(sec[1]),
          microsecond |-> IF withFraction
                          THEN DigitsValue(sec[2]) * Pow10(6 - Len(sec[2]))
                          ELSE 0]
    ELSE NoTime

\* The nested try blocks, lines 447-460.
ParseRuntime(s) ==
  IF strptime(s, FmtHMSf).ok THEN strptime(s, FmtHMSf)
  ELSE IF strptime(s, FmtMSf).ok THEN strptime(s, FmtMSf)
  ELSE IF strptime(s, FmtHMS).ok THEN strptime(s, FmtHMS)
  ELSE strptime(s, FmtMS)

\* timedelta as whole seconds and microseconds
ZeroDelta == [seconds |-> 0, microseconds |-> 0]

AddDelta(total, t) ==
  LET us == total.microseconds + t.microsecond
      sec == total.seconds + 3600 * t.hour + 60 * t.minute + t.second
  IN [seconds |-> sec + us \div 1000000, microseconds |-> us % 1000000]

DigitChar(n) == CHOOSE c \in Digit : DigitVal(c) = n

RECURSIVE Dec(_)
Dec(n) == IF n < 10 THEN <<DigitChar(n)>> ELSE Dec(n \div 10) \o <<DigitChar(n % 10)>>

RECURSIVE ZeroPad(_, _)
ZeroPad(s, width) == IF Len(s) >= width THEN s ELSE ZeroPad(<<"0">> \o s, width)

\* str(timedelta)
TimedeltaStr(td) ==
  LET days == td.seconds \div 86400
      rem == td.seconds % 86400
      hms == Dec(rem \div 3600) \o <<":">> \o ZeroPad(Dec((rem % 3600) \div 60), 2)
             \o <<":">> \o ZeroPad(Dec(rem % 60), 2)
      frac == IF td.microseconds # 0
              THEN <<".">> \o ZeroPad(Dec(td.microseconds), 6) ELSE <<>>
      prefix == IF days = 0 THEN <<>>
                ELSE Dec(days) \o <<" ", "d", "a", "y">>
                     \o (IF days # 1 THEN <<"s">> ELSE <<>>) \o <<",", " ">>
  IN prefix \o hms \o frac

\* for key in metrics_dict, lines 444-463, on the entries whose key ends in
\* "__runtime__total": [failed, total, raised]
RECURSIVE AccumulateLoop(_, _, _)
AccumulateLoop(ds, i, total) ==
  IF i > Len(ds) THEN [failed |-> FALSE, total |-> total, raised |-> "none"]
  \* strptime() argument 1 must be str
  ELSE IF ds[i].v.t # "str"
  THEN [failed |-> FALSE, total |-> total, raised |-> "TypeError"]
  ELSE LET t == ParseRuntime(ds[i].v.s) IN
       IF ~t.ok THEN [failed |-> TRUE, total |-> total, raised |-> "none"]
       ELSE AccumulateLoop(ds, i + 1, AddDelta(total, t))

endswithRuntimeTotalKey(e) == endswithRuntimeTotal(e.k)

KeyTotalTime == <<"total_time">>

\* lines 442-468
AccumulateTime(d) ==
  LET a == AccumulateLoop(SelectSeq(d, endswithRuntimeTotalKey), 1, ZeroDelta) IN
  IF a.raised # "none" THEN Outcome(d, <<>>, a.raised)
  ELSE Outcome(SetItem(d, KeyTotalTime,
                       IF a.failed THEN StrV(ERR) ELSE StrV(TimedeltaStr(a.total))),
               <<>>, "none")

NoTable == [columns |-> <<>>, rows |-> <<>>]

\* pd.DataFrame(list(metrics_dict.items())) with its two column names,
\* lines 473-475
DataFrame(d) ==
  [columns |-> <<<<"M", "e", "t", "r", "i", "c", "s">>,
                 d[1].v.s \o <<"_", "_">> \o d[2].v.s>>,
   rows |-> [i \in 1..Len(d) |-> [Metrics |-> d[i].k, vals |-> <<d[i].v>>]]]

NoDocument == [written |-> FALSE, doc |-> <<>>]

\* lines 470-477: [document, metrics_df, raised]; open(output, "w") raises
\* FileNotFoundError when the directory of the output file does not exist.
Persist(d, r) ==
  IF ~r.outDir
  THEN [document |-> NoDocument, metrics_df |-> NoTable, raised |-> "FileNotFoundError"]
  ELSE [document |-> [written |-> TRUE, doc |-> d], metrics_df |-> DataFrame(d),
        raised |-> "none"]

\* The record and the printed lines after the accumulation, from those
\* after the extractions.
Accumulate(e) ==
  IF e.raised # "none" THEN e
  ELSE [AccumulateTime(e.jsonFile) EXCEPT !.printed = e.printed \o @]

\* What the function leaves once the document and the table are written.
Return(a, r) ==
  LET p == IF a.raised = "none" THEN Persist(a.jsonFile, r)
           ELSE [document |-> NoDocument, metrics_df |-> NoTable, raised |-> a.raised]
  IN [metrics_dict |-> a.jsonFile, metrics_df |-> p.metrics_df,
      document |-> p.document, printed |-> a.printed, raised |-> p.raised]

\* The whole function.
extract_metrics(r) == Return(Accumulate(Extract(r)), r)

\* The runs.  Either every file is missing, or at most MaxFaults files
\* differ from a run whose files are all there.

MaxFaults == 1

Rt0 == <<"0", ":", "0", "1", ".", "5", "0">>
RtHMS == <<"1", ":", "0", "2", ":", "0", "3">>
RtMS == <<"1", ":", "0", "2">>
RtHMSf == <<"1", ":", "0", "2", ":", "0", "3", ".", "5">>
RtNumber == <<"1", "2", ".", "5">>
RtBad == <<"1", ":", "7", "5">>
RuntimeTexts == {Rt0, RtHMS, RtMS, RtHMSf, RtNumber, RtBad}

Alternatives(f) ==
  IF f \in TimedLogs
  THEN {ProfAbsent, ProfEmpty} \cup {ProfGood(rt) : rt \in RuntimeTexts}
  ELSE {ProfAbsent, ProfEmpty, ProfGood(Rt0)}

AllProfiles == {ProfAbsent, ProfEmpty} \cup {ProfGood(rt) : rt \in RuntimeTexts}

AllGood == [f \in FileIds |-> ProfGood(Rt0)]
AllAbsent == [f \in FileIds |-> ProfAbsent]

Near(base, k) ==
  UNION { { [f \in FileIds |-> IF f \in D THEN g[f] ELSE base[f]] :
              g \in {h \in [D -> AllProfiles] : \A f \in D : h[f] \in Alternatives(f)} } :
          D \in {S \in SUBSET FileIds : Cardinality(S) <= k} }

FileSystems == Near(AllGood, MaxFaults) \cup {AllAbsent}

TxtVersion == <<"v", "2", ".", "0">>
TxtGcd == <<"g", "c", "d">>
TxtPlatform == <<"n", "a", "n", "g", "a", "t", "e", "4", "5">>
TxtBase == <<"b", "a", "s", "e">>
TxtUuid == <<"u", "1">>

Run(fs, outDir, cmdFields, gitRepo, platformDir, design) ==
  [fs |-> fs, outDir |-> outDir, cmdFields |-> cmdFields, gitRepo |-> gitRepo,
   platformDir |-> platformDir, platform |-> TxtPlatform, design |-> design,
   variant |-> TxtBase, uuid |-> TxtUuid]

\* The directory of the output file holds the report files: without it they
\* are absent.
ReportFiles == {"reports/synth_stat.txt", "reports/5_route_drc.rpt"}

Runs ==
  {Run(fs, TRUE, <<TxtVersion, HeadCommit>>, TRUE, "repo", TxtGcd) : fs \in FileSystems}
  \cup {Run(fs, FALSE, <<TxtVersion, HeadCommit>>, TRUE, "repo", TxtGcd) :
          fs \in {g \in FileSystems : \A f \in ReportFiles : g[f] = ProfAbsent}}
  \cup {Run(fs, TRUE, cf, git, pd, TxtGcd) :
          fs \in {AllGood, AllAbsent}, cf \in {<<TxtVersion>>, <<TxtVersion, HeadCommit>>},
          git \in BOOLEAN, pd \in {"unset", "repo", "other"}}

NoRun == Run(AllAbsent, FALSE, <<TxtVersion>>, FALSE, "unset", TxtGcd)

-----------------------------------------------------------------------------
\* The batch loop: one run per discovered triple, its record appended to the
\* list and its table merged into the aggregate table.

KeyColumn == <<"M", "e", "t", "r", "i", "c", "s">>

RowKeys(t) == {t.rows[i].Metrics : i \in 1..Len(t.rows)}

\* The name of a value column in the merged table: suffixed when both sides
\* have a value column of that name.
Suffixed(c, overlap, suffix) == IF c \in overlap THEN c \o suffix ELSE c

\* left.merge(right, on = 'Metrics', how = 'inner'): the rows of left whose
\* key is in right, in the order of left, with the values of both sides.
merge(left, right) ==
  LET lc == Tail(left.columns)
      rc == Tail(right.columns)
      overlap == {lc[i] : i \in 1..Len(lc)} \cap {rc[i] : i \in 1..Len(rc)}
      kept == SelectSeq(left.rows, LAMBDA row : row.Metrics \in RowKeys(right))
      RightVals(k) ==
        right.rows[CHOOSE j \in 1..Len(right.rows) : right.rows[j].Metrics = k].vals
  IN [columns |-> <<KeyColumn>>
                  \o [i \in 1..Len(lc) |-> Suffixed(lc[i], overlap, <<"_", "x">>)]
                  \o [i \in 1..Len(rc) |-> Suffixed(rc[i], overlap, <<"_", "y">>)],
      rows |-> [i \in 1..Len(kept) |->
                  [Metrics |-> kept[i].Metrics,
                   vals |-> kept[i].vals \o RightVals(kept[i].Metrics)]]]

\* lines 503-507
MergeStep(all_df, design_df) ==
  IF Len(all_df.rows) = 0 THEN design_df ELSE merge(all_df, design_df)

\* Two columns of one name in a merged table: a warning or a MergeError,
\* according to the pandas installed.
HasDuplicateColumns(t) ==
  \E i, j \in 1..Len(t.columns) : i # j /\ t.columns[i] = t.columns[j]

MergeOutcomes(t) == IF HasDuplicateColumns(t) THEN {"none", "MergeError"} ELSE {"none"}

NoOutFile == [written |-> FALSE, doc |-> <<>>, html |-> NoTable]

Said(kind, words) == [kind |-> kind, tag |-> words]

\* The discovered triples: up to MaxTriples runs of distinct designs on one
\* platform.  A run's files are all there; or all there with a duration that
\* reads as a number; or all missing, with or without the directory of its
\* report files.
MaxTriples == 4

DesignName(i) == <<"d", DigitChar(i)>>
Uuid(i) == <<"u", DigitChar(i)>>

Numeric ==
  [f \in FileIds |-> IF f = "logs/1_1_yosys.log" THEN ProfGood(RtNumber) ELSE ProfGood(Rt0)]

TripleKinds == {"good", "numeric", "missing", "nodir"}

Triple(kind, i) ==
  [Run(CASE kind = "good" -> AllGood
         [] kind = "numeric" -> Numeric
         [] OTHER -> AllAbsent,
       kind # "nodir", <<TxtVersion, HeadCommit>>, TRUE, "repo", DesignName(i))
   EXCEPT !.uuid = Uuid(i)]

TripleSeqs ==
  UNION { { [i \in 1..n |-> Triple(ks[i], i)] : ks \in [1..n -> TripleKinds] } :
          n \in 0..MaxTriples }

\* The per-design tables of the merge taken alone: one value column under
\* one of two names, and a row for each of the keys it holds.
MaxTables == 4

KeyX == <<"X">>
KeyY == <<"Y">>
ColA == <<"c", "1">>
ColB == <<"c", "2">>

Table(keys, col) ==
  [columns |-> <<KeyColumn, col>>,
   rows |-> [i \in 1..Len(keys) |-> [Metrics |-> keys[i], vals |-> <<StrV(col)>>]]]

PerDesignTables ==
  {Table(keys, col) : keys \in {<<KeyX>>, <<KeyY>>, <<KeyX, KeyY>>}, col \in {ColA, ColB}}

-----------------------------------------------------------------------------
\* The state before anything has run; a component not under study stays idle.

NoCall ==
  [jsonTag |-> <<>>, pattern |-> "", file |-> Absent, count |-> FALSE,
   occurrence |-> 0, defaultNotFound |-> StrV(NA), before |-> <<>>]

Fresh == pc = "ready" /\ raised = "none" /\ stdout = <<>>
IdleTag == call = NoCall
IdleSkew == report = NoReport /\ scan = InitScan /\ li = 0 /\ triple = <<>>
IdleSdc == sdcFile = SdcFile("absent", <<>>) /\ clkList = <<>>
IdleRun == run = NoRun /\ metrics_df = NoTable /\ document = NoDocument
IdleMerge == all_metrics_df = NoTable /\ design_metrics_df = NoTable /\ tables = <<>>
IdleLoop ==
  /\ triples = <<>> /\ bi = 1 /\ heap = <<>> /\ all_metrics = <<>>
  /\ design_metrics = 0 /\ outFile = NoOutFile
IdleBatch == IdleMerge /\ IdleLoop

-----------------------------------------------------------------------------
\* One call of extractTagFromFile.

TagInit ==
  /\ metrics_dict \in PriorRecords
  /\ Fresh /\ IdleBatch /\ IdleTag /\ IdleSkew /\ IdleSdc /\ IdleRun

CallExtractTag ==
  /\ pc = "ready"
  /\ \E jsonTag \in TagKeys, pattern \in TagPatterns, file \in TagFiles,
        count \in BOOLEAN, occurrence \in Occurrences, defaultNotFound \in Defaults :
       LET r == extractTagFromFile(jsonTag, metrics_dict, pattern, file, count,
                                   occurrence, defaultNotFound) IN
       /\ metrics_dict' = r.jsonFile
       /\ stdout' = stdout \o r.printed
       /\ raised' = r.raised
       /\ call' = [jsonTag |-> jsonTag, pattern |-> pattern, file |-> file,
                   count |-> count, occurrence |-> occurrence,
                   defaultNotFound |-> defaultNotFound, before |-> metrics_dict]
       /\ pc' = IF r.raised = "none" THEN "returned" ELSE "raised"
  /\ UNCHANGED notTag

TagNext == CallExtractTag

SpecTag == TagInit /\ [][TagNext]_vars

Called == pc # "ready"
CallM == findall(call.pattern, call.file.content)
Printed(kind, tag) == \E i \in 1..Len(stdout) : stdout[i] = Warn(kind, tag)

\* C1: when the file cannot be opened or read, the call returns normally,
\* sets exactly the target key to "ERR", logs a warning, and leaves every
\* other key of the record (and the order of the keys) unchanged.
C1_FailSoft ==
  (Called /\ call.file.state # "readable") =>
    /\ pc = "returned"
    /\ raised = "none"
    /\ HasKey(metrics_dict, call.jsonTag)
    /\ Get(metrics_dict, call.jsonTag) = StrV(ERR)
    /\ Printed("Failed to open file", call.jsonTag)
    /\ \A i \in 1..Len(call.before) :
         /\ i <= Len(metrics_dict)
         /\ metrics_dict[i].k = call.before[i].k
         /\ call.before[i].k # call.jsonTag => metrics_dict[i] = call.before[i]
    /\ \A i \in 1..Len(metrics_dict) :
         i > Len(call.before) =>
           (i = Len(call.before) + 1 /\ metrics_dict[i].k = call.jsonTag)

\* Witness of C1: a missing file, with a field of another file already
\* extracted as a float and still there.
C1_Witness ==
  /\ Called
  /\ call.file.state = "absent"
  /\ call.jsonTag = TagRuntime
  /\ HasKey(call.before, TagTns)
  /\ Get(call.before, TagTns).t = "float"
  /\ Get(metrics_dict, TagTns).t = "float"
  /\ Get(metrics_dict, TagRuntime) = StrV(ERR)

\* C2: no per-field extraction failure is fatal: every call returns normally
\* with the target key present in the record.
C2_NeverFatal ==
  Called => (raised = "none" /\ pc = "returned" /\ HasKey(metrics_dict, call.jsonTag))

\* C3: for a readable file, count=True always sets the field to the integer
\* number of matches, for every N >= 0, occurrence and defaultNotFound.
C3_CountAlways ==
  (Called /\ call.file.state = "readable" /\ call.count) =>
    /\ raised = "none"
    /\ HasKey(metrics_dict, call.jsonTag)
    /\ Get(metrics_dict, call.jsonTag) = IntV(Len(CallM))

\* C4: readable file, no match, count not requested: the field is exactly
\* the caller's defaultNotFound, and the not-found warning is printed unless
\* the default is other than the built-in "N/A".
C4_DefaultOnMiss ==
  (Called /\ call.file.state = "readable" /\ CallM = <<>> /\ ~call.count) =>
    /\ raised = "none"
    /\ HasKey(metrics_dict, call.jsonTag)
    /\ Get(metrics_dict, call.jsonTag) = call.defaultNotFound
    /\ Printed("not found", call.jsonTag) <=> (call.defaultNotFound = StrV(NA))

\* Witness of C4: a miss with a supplied default of 0 and no warning.
C4_Witness ==
  /\ Called
  /\ call.file.state = "readable"
  /\ CallM = <<>>
  /\ ~call.count
  /\ call.defaultNotFound = IntV(0)
  /\ Get(metrics_dict, call.jsonTag) = IntV(0)
  /\ ~Printed("not found", call.jsonTag)

-----------------------------------------------------------------------------
\* One call of get_skew_latency, a line of the loop at a time.

SkewInit ==
  /\ report \in Reports
  /\ scan = InitScan /\ li = 0 /\ triple = <<>>
  /\ metrics_dict = <<>>
  /\ Fresh /\ IdleBatch /\ IdleTag /\ IdleSdc /\ IdleRun

\* lines 110-122
SkewOpen ==
  /\ pc = "ready"
  /\ IF report.state # "readable"
     THEN /\ triple' = ErrTriple
          /\ stdout' = Append(stdout, Warn("Failed to open file", <<>>))
          /\ pc' = "returned"
          /\ li' = li
     ELSE /\ li' = 1
          /\ pc' = "scanning"
          /\ UNCHANGED <<triple, stdout>>
  /\ scan' = InitScan
  /\ UNCHANGED <<report, raised, notSkew>>

\* lines 124-140
SkewLine ==
  /\ pc = "scanning"
  /\ li <= Len(report.lines)
  /\ scan' = ScanLine(scan, report.lines[li])
  /\ raised' = scan'.raised
  /\ pc' = IF scan'.raised = "none" THEN "scanning" ELSE "raised"
  /\ li' = li + 1
  /\ UNCHANGED <<report, triple, stdout, notSkew>>

\* line 142
SkewReturn ==
  /\ pc = "scanning"
  /\ li > Len(report.lines)
  /\ triple' = WorstTriple(scan)
  /\ pc' = "returned"
  /\ UNCHANGED <<report, scan, li, raised, stdout, notSkew>>

SkewNext == SkewOpen \/ SkewLine \/ SkewReturn

SpecSkew == SkewInit /\ [][SkewNext]_vars

\* The block of greatest skew, the earliest one when skews tie.
WorstBlock(bs) ==
  CHOOSE i \in 1..Len(bs) :
    /\ \A j \in 1..Len(bs) : ~FloatGt(float(bs[j].skew), float(bs[i].skew))
    /\ \A j \in 1..(i - 1) : FloatGt(float(bs[i].skew), float(bs[j].skew))

\* C6: for a readable report made of one or more complete latency blocks,
\* get_skew_latency returns the skew of the block of greatest skew with the
\* maximum and minimum latency of that same block (the earliest on a tie);
\* it returns ("ERR","ERR","ERR") only when the file cannot be opened.
C6_WorstTriple ==
  /\ (pc = "returned" /\ report.state = "readable" /\ report.blocks # <<>>) =>
       LET b == report.blocks[WorstBlock(report.blocks)] IN
       triple = <<FloatV(float(b.max)), FloatV(float(b.min)), FloatV(float(b.skew))>>
  /\ (report.state = "readable" /\ report.blocks # <<>>) => pc # "raised"
  /\ (pc = "returned" /\ triple = ErrTriple) => report.state # "readable"
  /\ (pc = "returned" /\ report.state # "readable") => triple = ErrTriple

\* The scan as a machine of three states.  A line beginning with "Latency"
\* enters EXPECT_MAX from any state; a line of one token is the maximum only
\* in EXPECT_MAX and leads to EXPECT_MIN_AND_SKEW; a line of more than two
\* tokens is the minimum and the skew only in EXPECT_MIN_AND_SKEW, replaces
\* the worst triple when its skew is greater, and leads to OUTSIDE_BLOCK;
\* any other line changes nothing.
InitMachine ==
  [state |-> "OUTSIDE_BLOCK", max |-> ZeroFloat,
   worst_max |-> ZeroFloat, worst_min |-> ZeroFloat, worst_skew |-> ZeroFloat]

MachineStep(m, line) ==
  LET n == Len(line.toks) IN
  IF n < 1 THEN m
  ELSE IF startswithLatency(line) THEN [m EXCEPT !.state = "EXPECT_MAX"]
  ELSE IF m.state = "EXPECT_MAX" /\ n = 1 /\ IsFloatText(line.toks[1])
  THEN [m EXCEPT !.max = float(line.toks[1]), !.state = "EXPECT_MIN_AND_SKEW"]
  ELSE IF /\ m.state = "EXPECT_MIN_AND_SKEW" /\ n > 2
          /\ IsFloatText(line.toks[1]) /\ IsFloatText(line.toks[3])
  THEN IF FloatGt(float(line.toks[3]), m.worst_skew)
       THEN [m EXCEPT !.worst_max = m.max, !.worst_min = float(line.toks[1]),
                      !.worst_skew = float(line.toks[3]), !.state = "OUTSIDE_BLOCK"]
       ELSE [m EXCEPT !.state = "OUTSIDE_BLOCK"]
  ELSE m

RECURSIVE MachineRun(_, _)
MachineRun(m, lines) ==
  IF lines = <<>> THEN m
  ELSE MachineStep(MachineRun(m, SubSeq(lines, 1, Len(lines) - 1)), lines[Len(lines)])

MachineTriple(m) == <<FloatV(m.worst_max), FloatV(m.worst_min), FloatV(m.worst_skew)>>

\* C11: the scan of get_skew_latency is that machine: on every sequence of
\* lines the code is inside a block exactly when the machine is, holds the
\* same worst triple after every line, and returns the triple the machine
\* ends with.
C11_ThreeStates ==
  /\ (pc = "scanning" /\ report.state = "readable") =>
       LET m == MachineRun(InitMachine, SubSeq(report.lines, 1, li - 1)) IN
       /\ scan.latency_section <=> m.state # "OUTSIDE_BLOCK"
       /\ WorstTriple(scan) = MachineTriple(m)
  /\ (pc = "returned" /\ report.state = "readable") =>
       triple = MachineTriple(MachineRun(InitMachine, report.lines))

-----------------------------------------------------------------------------
\* One call of read_sdc, with the two clock fields set from it.

SdcInit ==
  /\ sdcFile \in SdcFiles
  /\ clkList = <<>>
  /\ metrics_dict = <<>>
  /\ Fresh /\ IdleBatch /\ IdleTag /\ IdleSkew /\ IdleRun

\* lines 242-244
ReadSdc ==
  /\ pc = "ready"
  /\ LET r == read_sdc(sdcFile) IN
     /\ clkList' = r.clkList
     /\ raised' = r.raised
     /\ stdout' = stdout \o r.printed
     /\ metrics_dict' = IF r.raised = "none"
                        THEN ClockFields(metrics_dict, r.clkList)
                        ELSE metrics_dict
     /\ pc' = IF r.raised = "none" THEN "returned" ELSE "raised"
  /\ UNCHANGED <<sdcFile, notSdc>>

SdcNext == ReadSdc

SpecSdc == SdcInit /\ [][SdcNext]_vars

IsClockLine(line) == line.toks # <<>> /\ line.toks[1] = TokCreateClock

\* The line carries -name and -period, each followed by a token.
HasFlags(line) ==
  /\ \E i \in 1..(Len(line.toks) - 1) : line.toks[i] = TokName
  /\ \E i \in 1..(Len(line.toks) - 1) : line.toks[i] = TokPeriod

TokenAfter(line, flag) ==
  line.toks[1 + CHOOSE i \in 1..(Len(line.toks) - 1) :
                  line.toks[i] = flag /\ \A j \in 1..(i - 1) : line.toks[j] # flag]

ClockEntry(line) ==
  TokenAfter(line, TokName) \o <<":", " ">> \o TokenAfter(line, TokPeriod)

Conventional(file) ==
  \A i \in 1..Len(file.lines) : IsClockLine(file.lines[i]) => HasFlags(file.lines[i])

-----------------------------------------------------------------------------
\* One call of extract_metrics: the extractions, the accumulation of the
\* durations, then the writing of the document and the table.

RunInit ==
  /\ run \in Runs
  /\ metrics_dict = <<>>
  /\ metrics_df = NoTable
  /\ document = NoDocument
  /\ Fresh /\ IdleBatch /\ IdleTag /\ IdleSkew /\ IdleSdc

\* lines 194-437
RunExtract ==
  /\ pc = "ready"
  /\ \E e \in {Extract(run)} :
     /\ metrics_dict' = e.jsonFile
     /\ stdout' = stdout \o e.printed
     /\ raised' = e.raised
     /\ pc' = IF e.raised = "none" THEN "extracted" ELSE "raised"
  /\ UNCHANGED <<runVars, notRun>>

\* lines 442-468
RunAccumulate ==
  /\ pc = "extracted"
  /\ \E a \in {AccumulateTime(metrics_dict)} :
     /\ metrics_dict' = a.jsonFile
     /\ raised' = a.raised
     /\ pc' = IF a.raised = "none" THEN "accumulated" ELSE "raised"
  /\ UNCHANGED <<stdout, runVars, notRun>>

\* lines 470-477
RunPersist ==
  /\ pc = "accumulated"
  /\ \E p \in {Persist(metrics_dict, run)} :
     /\ document' = p.document
     /\ metrics_df' = p.metrics_df
     /\ raised' = p.raised
     /\ pc' = IF p.raised = "none" THEN "returned" ELSE "raised"
  /\ UNCHANGED <<metrics_dict, stdout, run, notRun>>

RunNext == RunExtract \/ RunAccumulate \/ RunPersist

SpecRun == RunInit /\ [][RunNext]_vars

\* The record is assembled once the last statement of the sequence has
\* stored its key.
KeyLast == <<"finish", "mem", "peak">>
Assembled == pc # "ready" /\ HasKey(metrics_dict, KeyLast)
Accumulated == Assembled /\ pc # "extracted"

\* The durations of the record, in its order: the values of the keys ending
\* in "__runtime__total".
Durations(d) ==
  LET ks == SelectSeq(d, LAMBDA e : endswithRuntimeTotal(e.k))
  IN [i \in 1..Len(ks) |-> ks[i].v]

Parses(v) == v.t = "str" /\ ParseRuntime(v.s).ok

RECURSIVE SumDurations(_)
SumDurations(vs) ==
  IF vs = <<>> THEN ZeroDelta
  ELSE AddDelta(SumDurations(SubSeq(vs, 1, Len(vs) - 1)), ParseRuntime(vs[Len(vs)].s))

\* C5: the accumulation always completes on an assembled record, whatever its
\* durations hold: total_time is their sum when every one of them parses
\* under the chain of four formats, and "ERR" when one of them does not.
C5_AllOrNothing ==
  Accumulated =>
    LET vs == Durations(metrics_dict) IN
    /\ raised # "TypeError"
    /\ HasKey(metrics_dict, KeyTotalTime)
    /\ Get(metrics_dict, KeyTotalTime) =
         IF \A i \in 1..Len(vs) : Parses(vs[i])
         THEN StrV(TimedeltaStr(SumDurations(vs))) ELSE StrV(ERR)

\* The keys of the record of a run whose files are all missing, in the
\* order of their insertion.
SchemaKeys == Keys(extract_metrics(Run(AllAbsent, TRUE, <<TxtVersion>>, TRUE, "repo", TxtGcd)).metrics_dict)

Overwrites == {i \in 1..Len(stdout) : stdout[i].kind = "Overwriting Tag"}

\* C7: a completed run leaves a record with the same keys in the same order
\* whatever the state of each input file, and writes each key once: the
\* sequence of extractions prints no overwrite warning.
C7_SchemaStable ==
  pc = "returned" =>
    /\ Keys(metrics_dict) = SchemaKeys
    /\ document.written /\ Keys(document.doc) = SchemaKeys
    /\ Overwrites = {}
    /\ \A i, j \in 1..Len(metrics_dict) :
         metrics_dict[i].k = metrics_dict[j].k => i = j

KeySynthRuntime == <<"synth", "runtime", "total">>

\* Witness of C7: a run returned with the synthesis log missing and the
\* synthesis report there; the record has a slot for every key all the same.
C7_Witness ==
  /\ pc = "returned"
  /\ run.fs["logs/1_1_yosys.log"].kind = "absent"
  /\ run.fs["reports/synth_stat.txt"].kind = "good"
  /\ Get(metrics_dict, KeySynthRuntime) = StrV(ERR)
  /\ Len(metrics_dict) = Len(SchemaKeys)

-----------------------------------------------------------------------------
\* The merge statement of the batch loop, on per-design tables of any keys.

MergeInit ==
  /\ metrics_dict = <<>>
  /\ Fresh /\ IdleBatch /\ IdleTag /\ IdleSkew /\ IdleSdc /\ IdleRun

\* lines 503-507, for the table of one more design
MergeTable ==
  /\ pc \in {"ready", "looping"}
  /\ Len(tables) < MaxTables
  /\ \E t \in PerDesignTables :
       \E merged \in {MergeStep(all_metrics_df, t)} :
         \E exc \in MergeOutcomes(merged) :
           /\ design_metrics_df' = t
           /\ tables' = Append(tables, t)
           /\ all_metrics_df' = IF exc = "none" THEN merged ELSE all_metrics_df
           /\ raised' = exc
           /\ pc' = IF exc = "none" THEN "looping" ELSE "raised"
  /\ UNCHANGED <<metrics_dict, stdout, loopVars, tagVars, skewVars, sdcVars, runVars>>

MergeNext == MergeTable

SpecMerge == MergeInit /\ [][MergeNext]_vars

RECURSIVE CommonKeys(_)
CommonKeys(ts) ==
  IF Len(ts) = 1 THEN RowKeys(ts[1])
  ELSE CommonKeys(SubSeq(ts, 1, Len(ts) - 1)) \cap RowKeys(ts[Len(ts)])

-----------------------------------------------------------------------------
\* The batch: lines 483-516.

BatchInit ==
  /\ triples \in TripleSeqs
  /\ metrics_dict = <<>>
  /\ bi = 1 /\ heap = <<>> /\ all_metrics = <<>> /\ design_metrics = 0
  /\ outFile = NoOutFile
  /\ Fresh /\ IdleMerge /\ IdleTag /\ IdleSkew /\ IdleSdc /\ IdleRun

\* lines 484-491
BatchStart ==
  /\ pc = "ready"
  /\ stdout' = stdout \o <<Said("print", <<"List of designs">>)>>
  /\ all_metrics_df' = NoTable
  /\ all_metrics' = <<>>
  /\ pc' = "looping"
  /\ UNCHANGED <<raised, design_metrics_df, tables, triples, bi, heap,
                 design_metrics, outFile, runVars, notBatch>>

\* One pass of the loop body, lines 498-507; an exception of the run or of
\* the merge leaves the loop and the program.
BatchIteration ==
  /\ pc = "looping"
  /\ bi <= Len(triples)
  /\ \E m \in {extract_metrics(triples[bi])} :
       /\ run' = triples[bi]
       /\ document' = m.document
       /\ stdout' = stdout
            \o <<Said("print", <<triples[bi].platform, triples[bi].design,
                                 triples[bi].variant>>)>>
            \o m.printed
       /\ IF m.raised # "none"
          THEN /\ raised' = m.raised
               /\ pc' = "raised"
               /\ UNCHANGED <<bi, heap, all_metrics, design_metrics, mergeVars>>
          ELSE /\ heap' = Append(heap, m.metrics_dict)
               /\ design_metrics' = Len(heap) + 1
               /\ design_metrics_df' = m.metrics_df
               /\ all_metrics' = Append(all_metrics, Len(heap) + 1)
               /\ tables' = Append(tables, m.metrics_df)
               /\ \E merged \in {MergeStep(all_metrics_df, m.metrics_df)} :
                    \E exc \in MergeOutcomes(merged) :
                      /\ all_metrics_df' = IF exc = "none" THEN merged ELSE all_metrics_df
                      /\ bi' = IF exc = "none" THEN bi + 1 ELSE bi
                      /\ raised' = exc
                      /\ pc' = IF exc = "none" THEN "looping" ELSE "raised"
  /\ UNCHANGED <<triples, outFile, notBatch>>

\* lines 511-516
BatchRender ==
  /\ pc = "looping"
  /\ bi > Len(triples)
  /\ outFile' = [written |-> TRUE,
                 doc |-> [i \in 1..Len(all_metrics) |-> heap[all_metrics[i]]],
                 html |-> all_metrics_df]
  /\ pc' = "done"
  /\ UNCHANGED <<stdout, raised, mergeVars, triples, bi, heap, all_metrics,
                 design_metrics, runVars, notBatch>>

BatchNext == BatchStart \/ BatchIteration \/ BatchRender

SpecBatch == BatchInit /\ [][BatchNext]_vars

KeyDesign == <<"run", "flow", "design">>
KeyUuid == <<"run", "flow", "uuid">>

\* The fields a run extracts from its files: all but the nine of the run's
\* identity and the total.
Extracted(d) == SubSeq(d, 10, Len(d) - 1)

Sentinel(v) == v \in {StrV(ERR), StrV(NA), IntV(0), ListV(<<>>)}

AllMissing(r) == \A f \in FileIds : r.fs[f].kind = "absent"

\* C10: the batch never halts on a run; once it is done the list holds one
\* record per triple, in the order of discovery, each a distinct object, and
\* the record of a run whose files are all missing holds a sentinel, or no
\* clock, in every extracted field.
C10_BatchCompletes ==
  /\ pc # "raised"
  /\ pc = "done" =>
       /\ Len(all_metrics) = Len(triples)
       /\ \A i \in 1..Len(all_metrics) :
            /\ Get(heap[all_metrics[i]], KeyDesign) = StrV(triples[i].design)
            /\ Get(heap[all_metrics[i]], KeyUuid) = StrV(triples[i].uuid)
            /\ AllMissing(triples[i]) =>
                 \A j \in 1..Len(Extracted(heap[all_metrics[i]])) :
                   Sentinel(Extracted(heap[all_metrics[i]])[j].v)
       /\ \A i, j \in 1..Len(all_metrics) :
            all_metrics[i] = all_metrics[j] => i = j
       /\ outFile.written /\ Len(outFile.doc) = Len(triples)

====
